---- MODULE Spec2Model ----
(***************************************************************************)
(* Order bot (bot.py): handle_message splits a chat message into clauses,  *)
(* extract_data_from_line parses each clause with a regular expression and *)
(* reconciles customer and product with fuzzy_match, call_gpt_fallback     *)
(* handles the clauses the expression rejects, update_google_sheet appends *)
(* the row and a reply is sent per clause.                                 *)
(*                                                                         *)
(* A text is a sequence of one-character strings.  A Python dict is a      *)
(* function from key names to values.  A call that may raise returns a     *)
(* record tagged "ok" or "raise".                                          *)
(***************************************************************************)
EXTENDS Integers, Sequences, FiniteSets, TLC

VARIABLES KNOWN_CUSTOMERS, KNOWN_PRODUCTS, text, sublines, i, pc, path,
          response, data, records, writes, replies

vars == <<KNOWN_CUSTOMERS, KNOWN_PRODUCTS, text, sublines, i, pc, path,
          response, data, records, writes, replies>>

\* ------------------------------------------------------------------ bounds
MaxClauses == 2
MaxFree == 3

\* ------------------------------------------------------------- characters
Whitespace == {" ", "\t", "\n"}
Digits == {"0", "1", "2", "3", "4", "5", "6", "7", "8", "9"}

IsSpace(ch) == ch \in Whitespace
IsDigit(ch) == ch \in Digits
IsDot(ch) == ch # "\n"
IsDelim(ch) == ch \in {";", ","}

Max(S) == CHOOSE x \in S : \A y \in S : y <= x
Min(S) == CHOOSE x \in S : \A y \in S : x <= y

\* str.strip(): drop leading and trailing whitespace
strip(s) ==
    LET keep == {k \in 1..Len(s) : ~IsSpace(s[k])}
    IN  IF keep = {} THEN <<>> ELSE SubSeq(s, Min(keep), Max(keep))

\* str.split(sep) / re.split(r'[;,]', s): cut at every separator character,
\* keeping empty pieces
RECURSIVE split(_, _)
split(s, seps) ==
    LET at == {k \in 1..Len(s) : s[k] \in seps}
    IN  IF at = {} THEN <<s>>
        ELSE <<SubSeq(s, 1, Min(at) - 1)>>
                 \o split(SubSeq(s, Min(at) + 1, Len(s)), seps)

RECURSIVE Flatten(_)
Flatten(ss) == IF ss = <<>> THEN <<>> ELSE Head(ss) \o Flatten(Tail(ss))

SelectNonEmpty(ss) == SelectSeq(ss, LAMBDA s : s # <<>>)

\* ------------------------------------------------- handle_message, 179-184
\* the sublines the two nested loops hand to extract_data_from_line
SublinesOf_unstripped(line) == SelectNonEmpty(split(line, {";", ","}))

SublinesOf_semicolon(line) ==
    LET pieces == split(line, {";"})
    IN  SelectNonEmpty([k \in 1..Len(pieces) |-> strip(pieces[k])])

SublinesOf(line) ==
    LET pieces == split(line, {";", ","})
    IN  SelectNonEmpty([k \in 1..Len(pieces) |-> strip(pieces[k])])

Segmenter(t) ==
    LET lines == split(t, {"\n"})
    IN  Flatten([k \in 1..Len(lines) |-> SublinesOf(lines[k])])

\* --------------------------------------- extract_data_from_line, line 59
\* re.match(r"(.+?)\s*\.\s*(\d+)(კგ|ც|ლ|გრამი)?\s+(.+?)(?:[,;]\s*(.*))?$")
\* as the backtracking matcher runs it: a lazy group takes the shortest
\* extent from which the rest of the pattern matches, a greedy one the
\* longest, an optional group is tried before it is skipped.
UNITS == << <<"კ", "გ">>, <<"ც">>, <<"ლ">>, <<"გ", "რ", "ა", "მ", "ი">> >>

AllSpace(s, a, b) == \A k \in a..b : IsSpace(s[k])
AllDigit(s, a, b) == \A k \in a..b : IsDigit(s[k])
AllDot(s, a, b) == \A k \in a..b : IsDot(s[k])

\* "$": at the end of the text, or just before a final line break
EndOK(s, e) == e = Len(s) \/ (e = Len(s) - 1 /\ s[Len(s)] = "\n")

\* (?:[,;]\s*(.*))?$ entered after the product ended at p: the extents
\* <<t, e>> of \s* (ends at t) and (.*) (ends at e)
GroupExtents(s, p) ==
    IF p + 1 > Len(s) \/ ~IsDelim(s[p + 1]) THEN {}
    ELSE {te \in ((p + 1)..Len(s)) \X ((p + 1)..Len(s)) :
             /\ te[1] <= te[2]
             /\ AllSpace(s, p + 2, te[1])
             /\ AllDot(s, te[1] + 1, te[2])
             /\ EndOK(s, te[2])}

GroupComment(s, p) ==
    LET ext == GroupExtents(s, p)
        t == Max({te[1] : te \in ext})
        e == Max({te[2] : te \in {x \in ext : x[1] = t}})
    IN  SubSeq(s, t + 1, e)

\* (.+?) for the product, started after \s+ ended at w
ProductEnds(s, w) ==
    {p \in (w + 1)..Len(s) :
        /\ AllDot(s, w + 1, p)
        /\ (GroupExtents(s, p) # {} \/ EndOK(s, p))}

\* \s+ started after the unit ended at u
WsEnds(s, u) ==
    {w \in (u + 1)..Len(s) :
        AllSpace(s, u + 1, w) /\ ProductEnds(s, w) # {}}

\* (კგ|ც|ლ|გრამი)? started after the digits ended at d: the alternatives
\* that match there and let the rest match
UnitChoices(s, d) ==
    {k \in 1..Len(UNITS) :
        /\ d + Len(UNITS[k]) <= Len(s)
        /\ SubSeq(s, d + 1, d + Len(UNITS[k])) = UNITS[k]
        /\ WsEnds(s, d + Len(UNITS[k])) # {}}

\* (\d+) started after \s* ended at b
DigitEnds(s, b) ==
    {d \in (b + 1)..Len(s) :
        /\ AllDigit(s, b + 1, d)
        /\ (UnitChoices(s, d) # {} \/ WsEnds(s, d) # {})}

\* \s* after the "." at index dot
Ws2Ends(s, dot) ==
    {b \in dot..Len(s) :
        AllSpace(s, dot + 1, b) /\ DigitEnds(s, b) # {}}

\* \s*\. after the customer ended at c
Ws1Ends(s, c) ==
    {a \in c..(Len(s) - 1) :
        /\ AllSpace(s, c + 1, a)
        /\ s[a + 1] = "."
        /\ Ws2Ends(s, a + 1) # {}}

\* (.+?) for the customer, anchored at the start of the text
CustomerEnds(s) ==
    {c \in 1..Len(s) : AllDot(s, 1, c) /\ Ws1Ends(s, c) # {}}

\* match.groups() once the extents are fixed: the customer ends at c, the
\* digits span b+1..d, the unit ends at u, the product spans w+1..p
Groups(s, c, b, d, u, w, p) ==
    [matched |-> TRUE,
     customer_raw |-> SubSeq(s, 1, c),
     number |-> SubSeq(s, b + 1, d),
     unit_none |-> u = d,
     unit |-> SubSeq(s, d + 1, u),
     product_raw |-> SubSeq(s, w + 1, p),
     comment_none |-> GroupExtents(s, p) = {},
     comment |-> IF GroupExtents(s, p) # {} THEN GroupComment(s, p) ELSE <<>>]

\* the extents the matcher settles on, left to right: each lazy group the
\* shortest, each greedy one the longest, the unit taken when it can be
MatchFromSpace(s, c, b, d, u, w) ==
    Groups(s, c, b, d, u, w, Min(ProductEnds(s, w)))

MatchFromUnit(s, c, b, d, u) ==
    MatchFromSpace(s, c, b, d, u, Max(WsEnds(s, u)))

MatchFromDigits(s, c, b, d) ==
    MatchFromUnit(s, c, b, d,
                  IF UnitChoices(s, d) # {}
                  THEN d + Len(UNITS[Min(UnitChoices(s, d))]) ELSE d)

MatchFromNumber(s, c, b) == MatchFromDigits(s, c, b, Max(DigitEnds(s, b)))

MatchFromDot(s, c, dot) == MatchFromNumber(s, c, Max(Ws2Ends(s, dot)))

MatchFromCustomer(s, c) == MatchFromDot(s, c, Max(Ws1Ends(s, c)) + 1)

\* match.groups() of the first match the matcher finds, or no match
re_match(s) ==
    IF CustomerEnds(s) = {} THEN [matched |-> FALSE]
    ELSE MatchFromCustomer(s, Min(CustomerEnds(s)))

\* ------------------------------------------------------ fuzzy_match, 50-53
\* length of a longest common subsequence
RECURSIVE LCS(_, _)
LCS(a, b) ==
    IF a = <<>> \/ b = <<>> THEN 0
    ELSE IF Head(a) = Head(b) THEN 1 + LCS(Tail(a), Tail(b))
    ELSE LET x == LCS(Tail(a), b)
             y == LCS(a, Tail(b))
         IN  IF x >= y THEN x ELSE y

\* the scorer of process.extractOne on the 0..100 scale: the normalised
\* indel similarity 100 * 2 * LCS / (len a + len b), truncated to an
\* integer; 0 when either text is empty
ratio(a, b) ==
    IF a = <<>> \/ b = <<>> THEN 0
    ELSE (200 * LCS(a, b)) \div (Len(a) + Len(b))

\* process.extractOne(term, known_list): the best-scoring choice, the
\* first one on a tie; None for an empty list
extractOne(term, known_list) ==
    IF known_list = <<>> THEN [none |-> TRUE]
    ELSE LET best == Max({ratio(term, known_list[k]) : k \in 1..Len(known_list)})
             key == Min({k \in 1..Len(known_list) :
                            ratio(term, known_list[k]) = best})
         IN  [none |-> FALSE, match |-> known_list[key], score |-> best,
              key |-> key]

\* line 51 unpacks the result: unpacking None raises TypeError
fuzzy_match_gt(term, known_list, threshold) ==
    LET r == extractOne(term, known_list)
    IN  IF r.none THEN [tag |-> "raise", exc |-> "TypeError"]
        ELSE IF r.score > threshold THEN [tag |-> "ok", none |-> FALSE, val |-> r.match]
        ELSE [tag |-> "ok", none |-> TRUE, val |-> <<>>]

fuzzy_match(term, known_list, threshold) ==
    LET r == extractOne(term, known_list)
    IN  IF r.none THEN [tag |-> "raise", exc |-> "TypeError"]
        ELSE IF r.score >= threshold THEN [tag |-> "ok", none |-> FALSE, val |-> r.match]
        ELSE [tag |-> "ok", none |-> TRUE, val |-> <<>>]

\* the default of the threshold parameter, line 50
threshold_default == 50

\* ------------------------------------------------ call_gpt_fallback, 87-144
\* the import block, lines 1-11, binds no name json
json_imported == FALSE

Keys(d) == DOMAIN d

\* d | e: the entries of e, and those of d under the other keys
Update(d, e) ==
    [k \in Keys(d) \cup Keys(e) |-> IF k \in Keys(e) THEN e[k] ELSE d[k]]

\* lines 133-144
DegradedRecord(t) ==
    [type |-> "order", customer |-> t, product |-> <<>>,
     amount_value |-> <<"?">>, amount_unit |-> <<>>, comment |-> <<>>,
     raw_customer |-> t, raw_product |-> <<>>,
     customer_unknown |-> TRUE, product_unknown |-> TRUE]

\* json.loads on the content of the reply: the content is carried as what
\* it denotes, "invalid" for text that is no JSON document
json_loads(content) ==
    IF content.json = "invalid" THEN [tag |-> "raise", exc |-> "JSONDecodeError"]
    ELSE [tag |-> "ok", val |-> content]

in_list(x, known_list) == \E k \in 1..Len(known_list) : known_list[k] = x

\* lines 121-129 once json.loads is reached with the name json bound
ParsedRecord(t, content, customers, products) ==
    LET loaded == json_loads(content)
    IN  IF loaded.tag = "raise" THEN DegradedRecord(t)
        ELSE IF loaded.val.json # "object" THEN DegradedRecord(t)
        ELSE LET parsed == loaded.val.fields
                 p1 == Update(parsed,
                         [type |-> "order",
                          raw_customer |-> IF "customer" \in Keys(parsed)
                                           THEN parsed.customer ELSE <<>>,
                          raw_product |-> IF "product" \in Keys(parsed)
                                          THEN parsed.product ELSE <<>>])
             IN  IF "customer" \notin Keys(parsed) THEN DegradedRecord(t)
                 ELSE IF "product" \notin Keys(parsed) THEN DegradedRecord(t)
                 ELSE Update(p1,
                        [customer_unknown |-> ~in_list(parsed.customer, customers),
                         product_unknown |-> ~in_list(parsed.product, products)])

\* the function with the name json bound
call_gpt_fallback_json(t, resp, customers, products) ==
    IF resp.kind = "error" THEN DegradedRecord(t)
    ELSE ParsedRecord(t, resp.content, customers, products)

\* resp is what client_ai.chat.completions.create does: it raises
\* (kind "error") or returns a reply with a content
call_gpt_fallback(t, resp, customers, products) ==
    IF resp.kind = "error" THEN DegradedRecord(t)
    ELSE IF ~json_imported THEN DegradedRecord(t)
    ELSE ParsedRecord(t, resp.content, customers, products)

\* ------------------------------------------- extract_data_from_line, 55-86
\* lines 72-86
OrderRecord(match, matched_customer, matched_product) ==
    [type |-> "order",
     customer |-> IF ~matched_customer.none /\ matched_customer.val # <<>>
                  THEN matched_customer.val ELSE match.customer_raw,
     product |-> IF ~matched_product.none /\ matched_product.val # <<>>
                 THEN matched_product.val ELSE match.product_raw,
     amount_value |-> match.number,
     amount_unit |-> IF match.unit_none THEN <<>> ELSE match.unit,
     comment |-> IF match.comment_none THEN <<>> ELSE match.comment,
     raw_customer |-> match.customer_raw,
     raw_product |-> match.product_raw,
     customer_unknown |-> matched_customer.none,
     product_unknown |-> matched_product.none]

\* lines 68-86: a raise of either fuzzy_match call leaves the function
Reconcile(match, matched_customer, matched_product) ==
    IF matched_customer.tag = "raise"
    THEN [tag |-> "raise", path |-> "pattern", exc |-> matched_customer.exc]
    ELSE IF matched_product.tag = "raise"
    THEN [tag |-> "raise", path |-> "pattern", exc |-> matched_product.exc]
    ELSE [tag |-> "ok", path |-> "pattern",
          val |-> OrderRecord(match, matched_customer, matched_product)]

\* lines 59-86 on the stripped line
ExtractMatched(line, match, resp, customers, products) ==
    IF ~match.matched
    THEN [tag |-> "ok", path |-> "fallback",
          val |-> call_gpt_fallback(line, resp, customers, products)]
    ELSE Reconcile(match,
                   fuzzy_match(match.customer_raw, customers, threshold_default),
                   fuzzy_match(match.product_raw, products, threshold_default))

ExtractStripped(line, resp, customers, products) ==
    ExtractMatched(line, re_match(line), resp, customers, products)

extract_data_from_line(line, resp, customers, products) ==
    ExtractStripped(strip(line), resp, customers, products)

\* ---------------------------------------------- update_google_sheet, 146-169
RowKeys == {"customer", "product", "amount_value", "amount_unit", "comment"}

\* the row of lines 159-167 without its timestamp
RowOf(d, author) ==
    <<strip(d.customer), strip(d.product), strip(d.amount_value),
      strip(d.amount_unit), strip(d.comment), strip(author)>>

\* the function without the try/except of lines 158-169
update_google_sheet_unguarded(d, author, sink_ok) ==
    IF d.type # "order"
    THEN [tag |-> "ok", attempted |-> FALSE, appended |-> FALSE, row |-> <<>>]
    ELSE IF ~(RowKeys \subseteq Keys(d))
    THEN [tag |-> "raise", attempted |-> FALSE, appended |-> FALSE, row |-> <<>>]
    ELSE [tag |-> IF sink_ok THEN "ok" ELSE "raise", attempted |-> TRUE,
          appended |-> sink_ok, row |-> RowOf(d, author)]

\* sink_ok is what sheet.append_rows does: it appends the row or raises.
\* Lines 149-157 read the five keys outside the try: a missing key raises
\* KeyError; the except of line 168 absorbs what append_rows raises.
update_google_sheet(d, author, sink_ok) ==
    IF d.type # "order"
    THEN [tag |-> "ok", attempted |-> FALSE, appended |-> FALSE, row |-> <<>>]
    ELSE IF ~(RowKeys \subseteq Keys(d))
    THEN [tag |-> "raise", attempted |-> FALSE, appended |-> FALSE, row |-> <<>>]
    ELSE [tag |-> "ok", attempted |-> TRUE, appended |-> sink_ok,
          row |-> RowOf(d, author)]

\* --------------------------------------------------- handle_message, 176-200
\* "if data:": a dict is true when it has a key
Truthy(d) == Keys(d) # {}

ReplyKeys == {"raw_customer", "raw_product", "amount_value", "amount_unit",
              "customer_unknown", "product_unknown"}

\* the reply of lines 193-197 (a logged line and its two warning markers)
\* or of line 200
ReplyFor(d, k, subline) ==
    IF Truthy(d)
    THEN [kind |-> "logged", clause |-> k,
          body |-> <<d.raw_customer, d.raw_product, d.amount_value, d.amount_unit>>,
          warn_customer |-> d.customer_unknown,
          warn_product |-> d.product_unknown]
    ELSE [kind |-> "failed", clause |-> k, body |-> <<subline>>,
          warn_customer |-> FALSE, warn_product |-> FALSE]

\* ------------------------------------------------------------- the inputs
Shop1 == <<"S", "h", "o", "p", "1">>
Shop2 == <<"S", "h", "o", "p", "2">>
Ann == <<"A", "n", "n">>
Bread == <<"B", "r", "e", "a", "d">>
Brad == <<"B", "r", "a", "d">>
Brod == <<"B", "r", "o", "d">>
Shp1 == <<"S", "h", "p", "1">>
Bred == <<"B", "r", "e", "d">>

\* known_customers.txt and known_products.txt as load_list_from_file
\* returns them: stripped non-empty lines, or [] when the file is missing
CustomerCatalogs == {<<>>, <<Shop2, Shop1, Ann>>}
ProductCatalogs == {<<>>, <<Bread>>, <<Brad, Brod>>}

Scenario1 == Shop1 \o <<" ", ".", " ", "1", "0", "k", "g", " ">> \o Bread
Scenario1Ka == Shop1 \o <<" ", ".", " ", "1", "0", "კ", "გ", " ">> \o Bread
Scenario2 == Shp1 \o <<" ", ".", " ", "5", " ">> \o Bred
Scenario4 == <<"A", ".", "1", " ", " ", "X">>

Fragments == {Scenario1, Scenario1Ka, Scenario2, Scenario4}

Separators == {<<",">>, <<";", "\n", " ">>}

\* the messages made of n fragments
RECURSIVE Joined(_)
Joined(n) ==
    IF n = 1 THEN Fragments
    ELSE {m \o sep \o f : m \in Joined(n - 1), sep \in Separators, f \in Fragments}

FreeAlphabet == {"a", " ", ",", ";", "\n"}

\* every text of n characters of FreeAlphabet
RECURSIVE FreeTexts(_)
FreeTexts(n) ==
    IF n = 0 THEN {<<>>}
    ELSE {Append(t, ch) : t \in FreeTexts(n - 1), ch \in FreeAlphabet}

\* "A.1kg X, B.2kg Y"
TwoOrders ==
    <<"A", ".", "1", "k", "g", " ", "X", ",", " ", "B", ".", "2", "k", "g", " ", "Y">>

Messages ==
    UNION {Joined(n) : n \in 1..MaxClauses}
        \cup UNION {FreeTexts(n) : n \in 0..MaxFree}
        \cup {TwoOrders}

AUTHOR == <<"u", " ">>

\* what the extraction service may do with one request
Objects ==
    {[customer |-> Shp1, product |-> Bred, amount_value |-> <<"5">>,
      amount_unit |-> <<>>, comment |-> <<>>],
     [customer |-> Shop1, product |-> Bread, amount_value |-> <<"1", "0">>,
      amount_unit |-> <<"k", "g">>, comment |-> <<>>],
     [customer |-> Shop1, product |-> Bread, comment |-> <<>>],
     [product |-> Bread, amount_value |-> <<"1">>]}

Responses ==
    {[kind |-> "error", content |-> [json |-> "none"]],
     [kind |-> "reply", content |-> [json |-> "invalid"]],
     [kind |-> "reply", content |-> [json |-> "array"]]}
    \cup {[kind |-> "reply", content |-> [json |-> "object", fields |-> o]] :
            o \in Objects}

NoResponse == [kind |-> "none", content |-> [json |-> "none"]]
NoData == [type |-> "none"]

\* the service is called by call_gpt_fallback only, line 113
ResponsesFor(subline) ==
    IF re_match(strip(subline)).matched THEN {NoResponse} ELSE Responses

\* ------------------------------------------------------------ the machine
Init ==
    /\ KNOWN_CUSTOMERS \in CustomerCatalogs
    /\ KNOWN_PRODUCTS \in ProductCatalogs
    /\ text \in Messages
    /\ sublines = <<>>
    /\ i = 0
    /\ pc = "start"
    /\ path = "none"
    /\ response = NoResponse
    /\ data = NoData
    /\ records = <<>>
    /\ writes = <<>>
    /\ replies = <<>>

\* lines 177-184: the clauses the loops will visit, in order
Segment ==
    /\ pc = "start"
    /\ sublines' = Segmenter(text)
    /\ i' = 1
    /\ pc' = IF Segmenter(text) = <<>> THEN "done" ELSE "extract"
    /\ UNCHANGED <<KNOWN_CUSTOMERS, KNOWN_PRODUCTS, text, path, response, data,
                   records, writes, replies>>

\* line 185
Extract ==
    /\ pc = "extract"
    /\ \E resp \in ResponsesFor(sublines[i]) :
         \E r \in {extract_data_from_line(sublines[i], resp,
                                          KNOWN_CUSTOMERS, KNOWN_PRODUCTS)} :
             /\ path' = r.path
             /\ response' = IF r.path = "fallback" THEN resp ELSE NoResponse
             /\ IF r.tag = "raise"
                THEN /\ pc' = "raised"
                     /\ UNCHANGED <<data, records>>
                ELSE /\ data' = r.val
                     /\ records' = Append(records, r.val)
                     /\ pc' = IF Truthy(r.val) THEN "write" ELSE "reply"
    /\ UNCHANGED <<KNOWN_CUSTOMERS, KNOWN_PRODUCTS, text, sublines, i, writes,
                   replies>>

\* line 187
Write ==
    /\ pc = "write"
    /\ \E sink_ok \in BOOLEAN :
         \E r \in {update_google_sheet(data, AUTHOR, sink_ok)} :
             /\ writes' = IF r.attempted
                          THEN Append(writes, [clause |-> i, row |-> r.row,
                                               ok |-> r.appended])
                          ELSE writes
             /\ pc' = IF r.tag = "raise" THEN "raised" ELSE "reply"
    /\ UNCHANGED <<KNOWN_CUSTOMERS, KNOWN_PRODUCTS, text, sublines, i, path,
                   response, data, records, replies>>

\* lines 188-200, and the step of the loops to the next clause
Reply ==
    /\ pc = "reply"
    /\ IF Truthy(data) /\ ~(ReplyKeys \subseteq Keys(data))
       THEN /\ pc' = "raised"
            /\ UNCHANGED <<i, replies, path, response>>
       ELSE /\ replies' = Append(replies, ReplyFor(data, i, sublines[i]))
            /\ i' = i + 1
            /\ pc' = IF i < Len(sublines) THEN "extract" ELSE "done"
            /\ path' = "none"
            /\ response' = NoResponse
    /\ UNCHANGED <<KNOWN_CUSTOMERS, KNOWN_PRODUCTS, text, sublines, data,
                   records, writes>>

Next == Segment \/ Extract \/ Write \/ Reply

Spec == Init /\ [][Next]_vars

\* ------------------------------------------------------------- properties
\* data is the record of clause i
Assembled == pc \in {"write", "reply"}

RecordKeys == RowKeys \cup {"customer_unknown", "product_unknown"}

\* C1: call_gpt_fallback never raises and always returns a record with
\* customer, product, amount_value, amount_unit, comment and both unknown
\* flags; when the call fails or the content is no JSON, the record is the
\* clause text as customer, "" as product, "?" as amount_value, "" as unit
\* and comment, both flags true.
C1_FallbackTotal ==
    (path = "fallback" /\ pc \in {"write", "reply", "raised"}) =>
        /\ pc # "raised"
        /\ RecordKeys \subseteq DOMAIN data
        /\ (response.kind = "error" \/ response.content.json = "invalid") =>
              /\ data.customer = sublines[i]
              /\ data.product = <<>>
              /\ data.amount_value = <<"?">>
              /\ data.amount_unit = <<>>
              /\ data.comment = <<>>
              /\ data.customer_unknown
              /\ data.product_unknown

\* the service answered a JSON object without amount_value and the record
\* went on to the sink
C1_Witness ==
    /\ path = "fallback"
    /\ pc = "reply"
    /\ response.kind = "reply"
    /\ response.content.json = "object"
    /\ "amount_value" \notin DOMAIN response.content.fields

\* C2: the clause "Shop1 . 10kg Bread", with "Shop1" and "Bread" in the
\* catalogs, yields customer "Shop1", product "Bread", value "10", unit
\* "kg" and both unknown flags false.
C2_Scenario1 ==
    (/\ Assembled
     /\ sublines[i] = Scenario1
     /\ in_list(Shop1, KNOWN_CUSTOMERS)
     /\ in_list(Bread, KNOWN_PRODUCTS)) =>
        /\ data.customer = Shop1
        /\ data.product = Bread
        /\ data.amount_value = <<"1", "0">>
        /\ data.amount_unit = <<"k", "g">>
        /\ ~data.customer_unknown
        /\ ~data.product_unknown

\* C3: with an empty catalog the matcher does not raise: a clause the
\* grammar matches yields a record whose field is the raw text and whose
\* unknown flag is true.
C3_EmptyCatalog ==
    (/\ path = "pattern"
     /\ pc \in {"write", "reply", "raised"}
     /\ (KNOWN_CUSTOMERS = <<>> \/ KNOWN_PRODUCTS = <<>>)) =>
        /\ pc # "raised"
        /\ KNOWN_CUSTOMERS = <<>> =>
              data.customer = data.raw_customer /\ data.customer_unknown
        /\ KNOWN_PRODUCTS = <<>> =>
              data.product = data.raw_product /\ data.product_unknown

\* what the pattern path makes of a raw text: the matcher's entry and flag
\* false, or the raw text and flag true
PatternVerdict(raw, known_list, value, unknown) ==
    LET m == fuzzy_match(raw, known_list, threshold_default)
    IN  /\ m.tag = "ok"
        /\ unknown = m.none
        /\ value = IF m.none THEN raw ELSE m.val

\* C4: on the fallback path, when the service returns well-formed fields,
\* the record's customer and product and their unknown flags are those the
\* pattern path produces for the same raw texts.
C4_FallbackRematch ==
    (/\ path = "fallback"
     /\ Assembled
     /\ response.kind = "reply"
     /\ response.content.json = "object"
     /\ RowKeys \subseteq DOMAIN response.content.fields
     /\ KNOWN_CUSTOMERS # <<>>
     /\ KNOWN_PRODUCTS # <<>>) =>
        /\ PatternVerdict(response.content.fields.customer, KNOWN_CUSTOMERS,
                          data.customer, data.customer_unknown)
        /\ PatternVerdict(response.content.fields.product, KNOWN_PRODUCTS,
                          data.product, data.product_unknown)

C5_WritesMatchRecords ==
    /\ Len(writes) = Len(records) - (IF pc = "write" THEN 1 ELSE 0)
    /\ \A k \in 1..Len(writes) :
          /\ writes[k].clause = k
          /\ writes[k].row[1] = strip(records[k].customer)
          /\ writes[k].row[2] = strip(records[k].product)
          /\ writes[k].row[3] = strip(records[k].amount_value)
          /\ writes[k].row[4] = strip(records[k].amount_unit)
          /\ writes[k].row[5] = strip(records[k].comment)
    /\ pc = "done" => Len(writes) = Len(sublines)

C5_WriteStep ==
    pc = "write" => (pc' = "reply" /\ Len(writes') = Len(writes) + 1)

\* C5: handle_message attempts one write per assembled record, in clause
\* order, and a failing write does not prevent the attempts for the later
\* clauses: whatever the sink does, the write is followed by the reply.
C5_OneWritePerRecord == []C5_WritesMatchRecords /\ [][C5_WriteStep]_vars

\* two clauses, the first write failed, the second was attempted
C5_Witness ==
    /\ pc = "done"
    /\ Len(writes) = 2
    /\ ~writes[1].ok
    /\ writes[2].clause = 2

\* C6: whatever the extraction stages do, one reply is sent per clause, in
\* clause order, and the extraction of a clause does not start before the
\* reply for the clause before it.
C6_OneReplyPerClause ==
    /\ pc \in {"extract", "write"} => Len(replies) = i - 1
    /\ \A k \in 1..Len(replies) : replies[k].clause = k
    /\ pc \in {"done", "raised"} => Len(replies) = Len(sublines)

\* the raw text scores at or above the threshold against some entry
Accepts(raw, known_list) ==
    \E k \in 1..Len(known_list) : ratio(raw, known_list[k]) >= 50

\* value is the highest-scoring entry, the first one on a tie
IsBestEntry(raw, known_list, value) ==
    \E k \in 1..Len(known_list) :
        /\ value = known_list[k]
        /\ \A j \in 1..Len(known_list) :
              ratio(raw, known_list[j]) <= ratio(raw, known_list[k])
        /\ \A j \in 1..(k - 1) :
              ratio(raw, known_list[j]) < ratio(raw, known_list[k])

Reconciled(raw, known_list, value, unknown) ==
    IF Accepts(raw, known_list)
    THEN IsBestEntry(raw, known_list, value) /\ ~unknown
    ELSE value = raw /\ unknown

\* C7: on the pattern path, a field whose best score over the catalog is at
\* or above 50 is the highest-scoring entry (the first on a tie) with the
\* unknown flag false; otherwise it is the raw text with the flag true.
C7_PatternReconciled ==
    (path = "pattern" /\ Assembled) =>
        \A match \in {re_match(sublines[i])} :
            /\ Reconciled(match.customer_raw, KNOWN_CUSTOMERS,
                          data.customer, data.customer_unknown)
            /\ Reconciled(match.product_raw, KNOWN_PRODUCTS,
                          data.product, data.product_unknown)

\* customer "A" scores exactly 50 against "Ann" and is replaced by it, the
\* product "X" scores below and stays
C7_Witness ==
    /\ path = "pattern"
    /\ Assembled
    /\ data.raw_customer = <<"A">>
    /\ ratio(<<"A">>, Ann) = 50
    /\ data.customer = Ann
    /\ ~data.customer_unknown
    /\ data.product = <<"X">>
    /\ data.product_unknown

\* C8: the success reply reports the customer and product that are written
\* to the sink for the clause.
C8_ReplyCanonical ==
    \A k \in 1..Len(replies) :
        (replies[k].kind = "logged" /\ k <= Len(writes)) =>
            /\ replies[k].body[1] = writes[k].row[1]
            /\ replies[k].body[2] = writes[k].row[2]

IsSep(ch) == ch \in {"\n", ",", ";"}

\* text[a..b] is a trimmed non-empty fragment: it holds no separator, it
\* starts and ends with a non-space character, and only spaces lie between
\* it and the separators (or text ends) around it
IsFragment(t, a, b) ==
    /\ a <= b
    /\ ~IsSpace(t[a])
    /\ ~IsSpace(t[b])
    /\ \A k \in a..b : ~IsSep(t[k])
    /\ \A j \in 1..(a - 1) :
          (\A m \in j..(a - 1) : ~IsSep(t[m])) => IsSpace(t[j])
    /\ \A j \in (b + 1)..Len(t) :
          (\A m \in (b + 1)..j : ~IsSep(t[m])) => IsSpace(t[j])

FragmentsOf(t) ==
    {ab \in (1..Len(t)) \X (1..Len(t)) : IsFragment(t, ab[1], ab[2])}

\* C9: the clauses handed to extraction are the trimmed non-empty fragments
\* between line breaks, commas and semicolons, all of them, in source order.
C9_Segmenter ==
    (pc \in {"extract", "done"} /\ i = 1) =>
        \A found \in {FragmentsOf(text)} :
            /\ Len(sublines) = Cardinality(found)
            /\ \A k \in 1..Len(sublines) :
                  \E ab \in found :
                      /\ sublines[k] = SubSeq(text, ab[1], ab[2])
                      /\ Cardinality({cd \in found : cd[1] < ab[1]}) = k - 1

\* "A.1kg X, B.2kg Y" gives "A.1kg X" then "B.2kg Y"
C9_Witness ==
    /\ text = TwoOrders
    /\ pc = "extract"
    /\ i = 1
    /\ sublines = << <<"A", ".", "1", "k", "g", " ", "X">>,
                     <<"B", ".", "2", "k", "g", " ", "Y">> >>

\* C10: no clause holds a comma, a semicolon or a line break, so every
\* record of the pattern path has an empty comment: the text after a comma
\* is a clause of its own.
C10_NoComment ==
    /\ \A k \in 1..Len(sublines) : \A m \in 1..Len(sublines[k]) :
          ~IsSep(sublines[k][m])
    /\ (path = "pattern" /\ Assembled) => data.comment = <<>>

\* "Shp1 . 5 Bred,Shop1 . 10kg Bread": the first clause went down the
\* pattern path and the text after the comma waits as the second clause
C10_Witness ==
    /\ text = Scenario2 \o <<",">> \o Scenario1
    /\ path = "pattern"
    /\ pc = "write"
    /\ i = 1
    /\ Len(sublines) = 2
    /\ sublines[2] = Scenario1

====
